---- MODULE Spec2Model ----
(***************************************************************************)
(* ISBN-Search: ISBN identity (cleaning, validation, ISBN-10 <-> ISBN-13   *)
(* conversion, variants, normalisation) and record reconciliation in the   *)
(* browser store (public/js/database.js), the browser validator            *)
(* (public/js/api.js) and the two server stores of server.js (the          *)
(* books.json version and the Postgres version).                           *)
(*                                                                         *)
(* A JavaScript string is a sequence of one-character strings.  null is    *)
(* the value Null, NaN is the value NaN.                                   *)
(***************************************************************************)
EXTENDS Integers, Sequences, FiniteSets, TLC

\* pure functions: the argument string
VARIABLE isbn
\* pure functions: the string (or null) returned by the last call
VARIABLE val
\* pure functions: names of the functions applied so far
VARIABLE calls
\* pure functions: result object of the last validateISBN
VARIABLE verdict
\* pure functions: array returned by the last getISBNVariants
VARIABLE variants

\* browser store: BookDatabase.data, an object as the ordered list of its entries
VARIABLE data
\* books.json server: ISBNServer.books, an object as the ordered list of its entries
VARIABLE books
\* Postgres server: the rows (isbn, data) of table books
VARIABLE rows
\* requests that are waiting on a query, a file write or a fetch, with their
\* locals (Postgres server, books.json server with concurrent requests, browser
\* search)
VARIABLE inflight
\* the last completed store operation: arguments, store before it, result
VARIABLE last
\* the wall clock read by new Date()
VARIABLE clock
\* number of store operations started so far
VARIABLE nops
\* books.json server: the content of data/books.json
VARIABLE file
\* browser search: BookAPIService.currentRequest, null or the controller of a call
VARIABLE currentRequest
\* browser search: what the page shows in #results and whether #loading is shown
VARIABLE ui
\* browser search: number of searchBook calls that passed validation so far
VARIABLE searches

pureVars == <<isbn, val, calls, verdict, variants>>
storeVars == <<data, books, rows, inflight, last, clock, nops, file, currentRequest, ui, searches>>
vars ==
    <<isbn, val, calls, verdict, variants, data, books, rows, inflight, last, clock, nops,
      file, currentRequest, ui, searches>>

(***************************************************************************)
(* Bounds                                                                  *)
(***************************************************************************)
\* number of trailing digits of the nine-digit body that range over 0..9
VaryLen == 2

(***************************************************************************)
(* JavaScript values and string primitives                                 *)
(***************************************************************************)
Null == <<"null">>
NaN == -1

Digits == <<"0", "1", "2", "3", "4", "5", "6", "7", "8", "9">>
DigitChars == {Digits[i] : i \in 1..10}

\* parseInt of a one-character string
parseInt(c) == IF c \in DigitChars THEN (CHOOSE n \in 0..9 : Digits[n + 1] = c) ELSE NaN

\* Number.prototype.toString / string concatenation of a number in 0..9 or NaN
toString(n) == IF n = NaN THEN <<"N", "a", "N">> ELSE <<Digits[n + 1]>>

\* arithmetic with NaN propagation
Add(a, b) == IF a = NaN \/ b = NaN THEN NaN ELSE a + b
Mul(a, b) == IF a = NaN \/ b = NaN THEN NaN ELSE a * b
Sub(a, b) == IF a = NaN \/ b = NaN THEN NaN ELSE a - b
Mod(a, m) == IF a = NaN THEN NaN ELSE a % m

\* String.prototype.substring(a, b) with 0 <= a <= b
substring(s, a, b) == SubSeq(s, a + 1, IF b < Len(s) THEN b ELSE Len(s))

startsWith(s, p) == Len(s) >= Len(p) /\ SubSeq(s, 1, Len(p)) = p

Prefix978 == <<"9", "7", "8">>
Prefix979 == <<"9", "7", "9">>
Sentinel == [i \in 1..13 |-> "6"]

(***************************************************************************)
(* public/js/database.js: BookDatabase, pure part                          *)
(***************************************************************************)
cleanISBN(s) == SelectSeq(s, LAMBDA c : c \notin {"-", " "})

\* for (i = 0; i < 12; i++) sum += parseInt(partial[i]) * (i % 2 === 0 ? 1 : 3)
RECURSIVE Sum13(_, _)
Sum13(partial, i) ==
    IF i >= 12 THEN 0
    ELSE Add(Mul(parseInt(partial[i + 1]), IF i % 2 = 0 THEN 1 ELSE 3), Sum13(partial, i + 1))

\* for (i = 0; i < 9; i++) sum += parseInt(partial[i]) * (10 - i)
RECURSIVE Sum10(_, _)
Sum10(partial, i) ==
    IF i >= 9 THEN 0
    ELSE Add(Mul(parseInt(partial[i + 1]), 10 - i), Sum10(partial, i + 1))

\* variant: the weights 1 and 3 of the checksum are exchanged
RECURSIVE Sum13_SwappedWeights(_, _)
Sum13_SwappedWeights(partial, i) ==
    IF i >= 12 THEN 0
    ELSE Add(Mul(parseInt(partial[i + 1]), IF i % 2 = 0 THEN 3 ELSE 1),
             Sum13_SwappedWeights(partial, i + 1))

convertISBN10ToISBN13_SwappedWeights(isbn10) ==
    IF isbn10 = Null \/ isbn10 = <<>> \/ Len(isbn10) # 10 THEN Null
    ELSE LET partial == Prefix978 \o substring(isbn10, 0, 9)
             sum == Sum13_SwappedWeights(partial, 0)
             checkDigit == Mod(Sub(10, Mod(sum, 10)), 10)
         IN  partial \o toString(checkDigit)

\* variant: the check digit is 10 - (sum % 10), without the outer % 10
convertISBN10ToISBN13_NoOuterMod(isbn10) ==
    IF isbn10 = Null \/ isbn10 = <<>> \/ Len(isbn10) # 10 THEN Null
    ELSE LET partial == Prefix978 \o substring(isbn10, 0, 9)
             sum == Sum13(partial, 0)
             checkDigit == Sub(10, Mod(sum, 10))
         IN  partial \o (IF checkDigit = 10 THEN <<"1", "0">> ELSE toString(checkDigit))

convertISBN10ToISBN13(isbn10) ==
    IF isbn10 = Null \/ isbn10 = <<>> \/ Len(isbn10) # 10 THEN Null
    ELSE LET partial == Prefix978 \o substring(isbn10, 0, 9)
             sum == Sum13(partial, 0)
             checkDigit == Mod(Sub(10, Mod(sum, 10)), 10)
         IN  partial \o toString(checkDigit)

\* variant: a check value of 10 is written "0" instead of "X"
convertISBN13ToISBN10_NoX(isbn13) ==
    IF isbn13 = Null \/ isbn13 = <<>> \/ Len(isbn13) # 13 \/ ~startsWith(isbn13, Prefix978) THEN Null
    ELSE LET partial == substring(isbn13, 3, 12)
             sum == Sum10(partial, 0)
             checkDigit == Mod(Sub(11, Mod(sum, 11)), 11)
             checkChar == IF checkDigit = 10 THEN <<"0">> ELSE toString(checkDigit)
         IN  partial \o checkChar

convertISBN13ToISBN10(isbn13) ==
    IF isbn13 = Null \/ isbn13 = <<>> \/ Len(isbn13) # 13 \/ ~startsWith(isbn13, Prefix978) THEN Null
    ELSE LET partial == substring(isbn13, 3, 12)
             sum == Sum10(partial, 0)
             checkDigit == Mod(Sub(11, Mod(sum, 11)), 11)
             checkChar == IF checkDigit = 10 THEN <<"X">>
                          ELSE IF checkDigit = 11 THEN <<"0">>
                          ELSE toString(checkDigit)
         IN  partial \o checkChar

\* variant: the first ten characters are converted whatever the length
normalizeISBN_ConvertsLonger(s) ==
    LET clean == cleanISBN(s)
    IN  IF clean = Sentinel THEN clean
        ELSE IF Len(clean) >= 10 THEN convertISBN10ToISBN13(substring(clean, 0, 10))
        ELSE clean

normalizeISBN(s) ==
    LET clean == cleanISBN(s)
    IN  IF clean = Sentinel THEN clean
        ELSE IF Len(clean) = 13 THEN clean
        ELSE IF Len(clean) = 10 /\ convertISBN10ToISBN13(clean) # Null
             THEN convertISBN10ToISBN13(clean)
        ELSE clean

\* Set.prototype.add on an insertion-ordered Set
SetAdd(arr, x) == IF \E i \in 1..Len(arr) : arr[i] = x THEN arr ELSE Append(arr, x)

\* variant: the derived ISBN-13 is listed before the cleaned argument
getISBNVariants_DerivedFirst(s) ==
    LET clean == cleanISBN(s)
    IN  IF Len(clean) = 10 /\ convertISBN10ToISBN13(clean) # Null
        THEN <<convertISBN10ToISBN13(clean), clean>>
        ELSE <<clean>>

getISBNVariants(s) ==
    LET clean == cleanISBN(s)
        v1 == <<clean>>
        v2 == IF Len(clean) = 13 /\ startsWith(clean, Prefix978)
                 /\ convertISBN13ToISBN10(clean) # Null
              THEN SetAdd(v1, convertISBN13ToISBN10(clean)) ELSE v1
        v3 == IF Len(clean) = 10 /\ convertISBN10ToISBN13(clean) # Null
              THEN SetAdd(v2, convertISBN10ToISBN13(clean)) ELSE v2
    IN  v3

(***************************************************************************)
(* public/js/api.js: BookAPIService.validateISBN                           *)
(***************************************************************************)
ErrLength == "L'ISBN doit contenir 10 ou 13 chiffres"
ErrFormat10 == "Format ISBN-10 invalide"
ErrFormat13 == "Format ISBN-13 invalide"
ErrPrefix == "ISBN-13 doit commencer par 978 ou 979"

AllDigits(s, n) == \A i \in 1..n : s[i] \in DigitChars

\* variant: no character-class check
validateISBN_NoCharClass(s) ==
    LET clean == cleanISBN(s)
    IN  IF clean = Sentinel THEN [valid |-> TRUE, isbn |-> clean]
        ELSE IF Len(clean) # 10 /\ Len(clean) # 13 THEN [valid |-> FALSE, error |-> ErrLength]
        ELSE IF Len(clean) = 13 /\ ~startsWith(clean, Prefix978) /\ ~startsWith(clean, Prefix979)
             THEN [valid |-> FALSE, error |-> ErrPrefix]
        ELSE [valid |-> TRUE, isbn |-> clean]

validateISBN(s) ==
    LET clean == cleanISBN(s)
    IN  IF clean = Sentinel THEN [valid |-> TRUE, isbn |-> clean]
        ELSE IF Len(clean) # 10 /\ Len(clean) # 13 THEN [valid |-> FALSE, error |-> ErrLength]
        ELSE IF Len(clean) = 10
             THEN IF ~(AllDigits(clean, 9) /\ clean[10] \in DigitChars \cup {"X"})
                  THEN [valid |-> FALSE, error |-> ErrFormat10]
                  ELSE [valid |-> TRUE, isbn |-> clean]
        ELSE IF ~AllDigits(clean, 13) THEN [valid |-> FALSE, error |-> ErrFormat13]
        ELSE IF ~startsWith(clean, Prefix978) /\ ~startsWith(clean, Prefix979)
             THEN [valid |-> FALSE, error |-> ErrPrefix]
        ELSE [valid |-> TRUE, isbn |-> clean]

(***************************************************************************)
(* server.js: ISBNServer, pure part (books.json version; the Postgres      *)
(* version repeats the same four methods)                                  *)
(***************************************************************************)
ServerCleanISBN(s) == SelectSeq(s, LAMBDA c : c \notin {"-", " "})

ServerNormalizeISBN(s) ==
    LET clean == ServerCleanISBN(s)
    IN  IF clean = Sentinel THEN clean
        ELSE IF Len(clean) = 13 THEN clean
        ELSE IF Len(clean) = 10
             THEN LET partial == Prefix978 \o substring(clean, 0, 9)
                      sum == Sum13(partial, 0)
                      checkDigit == Mod(Sub(10, Mod(sum, 10)), 10)
                  IN  partial \o toString(checkDigit)
        ELSE clean

ServerGetISBNVariants(s) ==
    LET clean == ServerCleanISBN(s)
        v1 == <<clean>>
        v2 == IF Len(clean) = 13 /\ startsWith(clean, Prefix978)
              THEN Append(v1, substring(clean, 3, 12)) ELSE v1
        v3 == IF Len(clean) = 10 /\ ServerNormalizeISBN(clean) # clean
              THEN Append(v2, ServerNormalizeISBN(clean)) ELSE v2
    IN  v3

ServerValidateISBN(s) ==
    LET clean == ServerCleanISBN(s)
    IN  IF Len(clean) # 10 /\ Len(clean) # 13 THEN [valid |-> FALSE, error |-> ErrLength]
        ELSE IF Len(clean) = 13 /\ ~startsWith(clean, Prefix978) /\ ~startsWith(clean, Prefix979)
             THEN [valid |-> FALSE, error |-> ErrPrefix]
        ELSE [valid |-> TRUE, isbn |-> clean]

(***************************************************************************)
(* Argument strings of the pure functions                                  *)
(***************************************************************************)
BodyA == <<"0", "1", "5", "6", "0", "1", "3", "9", "8">>
BodyB == <<"2", "4", "0", "1", "0", "8", "4", "6", "2">>

\* BodyA with its last VaryLen digits ranging over all digits, and BodyB
Bodies ==
    { [i \in 1..9 |-> IF i <= 9 - VaryLen THEN BodyA[i] ELSE t[i - (9 - VaryLen)]] :
        t \in [1..VaryLen -> DigitChars] } \cup {BodyB}

Isbn10Inputs == {b \o <<t>> : b \in Bodies, t \in DigitChars \cup {"X", "A"}}
Isbn13Inputs == {p \o b \o <<d>> : p \in {Prefix978, Prefix979}, b \in Bodies, d \in DigitChars}

OddInputs ==
    { Sentinel,
      <<"6", "6", "6", "-">> \o SubSeq(Sentinel, 1, 10),
      <<"9", "7", "8", "-", "0", "-", "1", "5", "-", "6", "0", "1", "3", "9", "8", "-", "7">>,
      <<"0", " ", "1", "5", " ", "6", "0", "1", "3", "9", "8", " ", "7">>,
      <<"1", "2", "3", "4", "5">>,
      <<>>,
      <<"0", "1", "5", "6", "0", "A", "3", "9", "8", "7">>,
      <<"9", "7", "8", "0", "1", "5", "6", "0", "1", "3", "9", "A", "B">>,
      <<"1", "2", "3", "4", "5", "6", "7", "8", "9", "0", "1", "2", "3">>,
      <<"9", "7", "7", "0", "1", "5", "6", "0", "1", "3", "9", "8", "7">>,
      <<"9", "7", "7", "0", "1", "5", "6", "0", "1", "3", "9", "8", "A">>,
      <<"0", "1", "5", "6", "0", "1", "3", "9", "8", "x">> }

PureInputs == Isbn10Inputs \cup Isbn13Inputs \cup OddInputs

NoVerdict == [valid |-> FALSE, error |-> ""]

\* no pure function is being applied
PureIdle ==
    /\ isbn = <<>>
    /\ val = <<>>
    /\ calls = <<>>
    /\ verdict = NoVerdict
    /\ variants = <<>>

\* the page before any search: nothing shown, no request
SearchIdle ==
    /\ currentRequest = <<>>
    /\ ui = [results |-> [kind |-> "none"], loading |-> FALSE]
    /\ searches = 0

\* no store is in use
StoreIdle ==
    /\ data = <<>>
    /\ books = <<>>
    /\ rows = <<>>
    /\ inflight = <<>>
    /\ last = [op |-> "init"]
    /\ clock = 0
    /\ nops = 0
    /\ file = <<>>
    /\ SearchIdle

(***************************************************************************)
(* Pure functions as one-call steps on the current string                  *)
(***************************************************************************)
InitPure ==
    /\ isbn \in PureInputs
    /\ val = isbn
    /\ calls = <<>>
    /\ verdict = NoVerdict
    /\ variants = <<>>
    /\ StoreIdle

\* a string-valued function applied to the current string
ApplyStr(name, result) ==
    /\ val # Null
    /\ val' = result
    /\ calls' = Append(calls, name)
    /\ UNCHANGED <<isbn, verdict, variants>>
    /\ UNCHANGED storeVars

CallClean == calls = <<>> /\ ApplyStr("cleanISBN", cleanISBN(val))

CallNormalize ==
    /\ calls \in {<<>>, <<"normalizeISBN">>}
    /\ ApplyStr("normalizeISBN", normalizeISBN(val))

CallServerNormalize ==
    /\ calls \in {<<>>, <<"ServerNormalizeISBN">>}
    /\ ApplyStr("ServerNormalizeISBN", ServerNormalizeISBN(val))

CallTo13 ==
    /\ calls \in {<<>>, <<"convertISBN13ToISBN10">>}
    /\ ApplyStr("convertISBN10ToISBN13", convertISBN10ToISBN13(val))

CallTo10 ==
    /\ calls \in {<<>>, <<"convertISBN10ToISBN13">>}
    /\ ApplyStr("convertISBN13ToISBN10", convertISBN13ToISBN10(val))

CallValidate ==
    /\ calls = <<>>
    /\ verdict' = validateISBN(val)
    /\ calls' = <<"validateISBN">>
    /\ UNCHANGED <<isbn, val, variants>>
    /\ UNCHANGED storeVars

CallServerValidate ==
    /\ calls = <<>>
    /\ verdict' = ServerValidateISBN(val)
    /\ calls' = <<"ServerValidateISBN">>
    /\ UNCHANGED <<isbn, val, variants>>
    /\ UNCHANGED storeVars

CallVariants ==
    /\ calls = <<>>
    /\ variants' = getISBNVariants(val)
    /\ calls' = <<"getISBNVariants">>
    /\ UNCHANGED <<isbn, val, verdict>>
    /\ UNCHANGED storeVars

CallServerVariants ==
    /\ calls = <<>>
    /\ variants' = ServerGetISBNVariants(val)
    /\ calls' = <<"ServerGetISBNVariants">>
    /\ UNCHANGED <<isbn, val, verdict>>
    /\ UNCHANGED storeVars

NextPure ==
    \/ CallClean
    \/ CallNormalize
    \/ CallServerNormalize
    \/ CallTo13
    \/ CallTo10
    \/ CallValidate
    \/ CallServerValidate
    \/ CallVariants
    \/ CallServerVariants

SpecPure == InitPure /\ [][NextPure]_vars

(***************************************************************************)
(* JavaScript objects.  A store object ({isbn: book}) is the list of its   *)
(* entries [k, v] in property order, which for these keys is insertion     *)
(* order.  A book is a function from its property names to their values;   *)
(* null is the empty list and a found book b is the list <<b>>.            *)
(***************************************************************************)
KeySet(obj) == {obj[i].k : i \in 1..Len(obj)}

\* if (obj[k])
Has(obj, k) == k \in KeySet(obj)

\* obj[k]
Get(obj, k) == obj[CHOOSE i \in 1..Len(obj) : obj[i].k = k].v

\* obj[k] = v
Put(obj, k, v) ==
    IF Has(obj, k)
    THEN [i \in 1..Len(obj) |-> IF obj[i].k = k THEN [k |-> k, v |-> v] ELSE obj[i]]
    ELSE Append(obj, [k |-> k, v |-> v])

\* delete obj[k]
Del(obj, k) == SelectSeq(obj, LAMBDA e : e.k # k)

\* {...a, ...b} on books
Spread(a, b) == b @@ a

\* {...a, ...b} on store objects
RECURSIVE SpreadObj(_, _)
SpreadObj(a, b) == IF b = <<>> THEN a ELSE SpreadObj(Put(a, b[1].k, b[1].v), Tail(b))

(***************************************************************************)
(* public/js/database.js: BookDatabase, store part                         *)
(***************************************************************************)
\* the first variant that is a key of the store, if any
RECURSIVE FirstHit(_, _)
FirstHit(obj, vs) ==
    IF vs = <<>> THEN <<>>
    ELSE IF Has(obj, vs[1]) THEN <<vs[1]>>
    ELSE FirstHit(obj, Tail(vs))

\* variant: only the cleaned argument is probed
findBook_NoVariants(obj, i) ==
    LET hit == FirstHit(obj, <<cleanISBN(i)>>)
    IN  IF hit = <<>> THEN <<>>
        ELSE <<Spread(Get(obj, hit[1]), [foundWithISBN |-> hit[1]])>>

findBook(obj, i) ==
    LET hit == FirstHit(obj, getISBNVariants(i))
    IN  IF hit = <<>> THEN <<>>
        ELSE <<Spread(Get(obj, hit[1]), [foundWithISBN |-> hit[1]])>>

\* bookInfo.source || 'unknown'
SourceOr(bookInfo) == IF "source" \in DOMAIN bookInfo THEN bookInfo.source ELSE "unknown"

\* this.data after addBook(i, bookInfo) at time now
addBook(obj, i, bookInfo, now) ==
    LET normalizedISBN == normalizeISBN(i)
        found == findBook(obj, i)
    IN  IF found # <<>>
        THEN LET existingBook == found[1]
                 finalBookData == Spread(Spread(existingBook, bookInfo), [lastUpdated |-> now])
                 kept == IF existingBook.foundWithISBN # normalizedISBN
                         THEN Del(obj, existingBook.foundWithISBN) ELSE obj
             IN  Put(kept, normalizedISBN, finalBookData)
        ELSE LET finalBookData ==
                     Spread(bookInfo, [lastUpdated |-> now, source |-> SourceOr(bookInfo)])
             IN  Put(obj, normalizedISBN, finalBookData)

\* variant: the entry under the matched key is kept when the record migrates
updateBookField_KeepsMatchedKey(obj, i, edit, now) ==
    LET found == findBook(obj, i)
    IN  IF found = <<>> THEN obj
        ELSE LET normalizedISBN == normalizeISBN(i)
                 currentStorageISBN == found[1].foundWithISBN
                 migrated == IF currentStorageISBN # normalizedISBN
                             THEN Put(obj, normalizedISBN, Get(obj, currentStorageISBN))
                             ELSE obj
             IN  Put(migrated, normalizedISBN,
                     Spread(Spread(Get(migrated, normalizedISBN), edit), [lastUpdated |-> now]))

\* this.data after updateBookField(i, field, value); edit is {[field]: value}
updateBookField(obj, i, edit, now) ==
    LET found == findBook(obj, i)
    IN  IF found = <<>> THEN obj
        ELSE LET normalizedISBN == normalizeISBN(i)
                 currentStorageISBN == found[1].foundWithISBN
                 migrated == IF currentStorageISBN # normalizedISBN
                             THEN Del(Put(obj, normalizedISBN, Get(obj, currentStorageISBN)),
                                      currentStorageISBN)
                             ELSE obj
             IN  Put(migrated, normalizedISBN,
                     Spread(Spread(Get(migrated, normalizedISBN), edit), [lastUpdated |-> now]))

\* this.data and the flag deleted after the loop of deleteBook over the
\* variants vs
RECURSIVE DeleteLoop(_, _, _)
DeleteLoop(obj, vs, deleted) ==
    IF vs = <<>> THEN [data |-> obj, deleted |-> deleted]
    ELSE IF Has(obj, vs[1]) THEN DeleteLoop(Del(obj, vs[1]), Tail(vs), TRUE)
    ELSE DeleteLoop(obj, Tail(vs), deleted)

deleteBook(obj, i) == DeleteLoop(obj, getISBNVariants(i), FALSE).data

\* variant: the return value tells whether the cleaned argument was a key
deleteBookResult_CleanOnly(obj, i) == Has(obj, cleanISBN(i))

\* return value of deleteBook
deleteBookResult(obj, i) == DeleteLoop(obj, getISBNVariants(i), FALSE).deleted

\* if (deleted) this.saveDatabase(): whether deleteBook writes localStorage
deleteBookSaves(obj, i) == deleteBookResult(obj, i)

\* this.data after importDatabase(exportedData)
importDatabase(obj, exportedData) ==
    IF "books" \in DOMAIN exportedData THEN SpreadObj(obj, exportedData.books) ELSE obj

\* variants.find(v => v.length === 13) || isbn
PreferredISBN(vs, i) ==
    IF \E n \in 1..Len(vs) : Len(vs[n]) = 13
    THEN vs[CHOOSE n \in 1..Len(vs) : Len(vs[n]) = 13 /\ \A m \in 1..(n - 1) : Len(vs[m]) # 13]
    ELSE i

\* the loop of cleanDatabase over Object.entries(this.data)
RECURSIVE CleanLoop(_, _, _)
CleanLoop(entries, cleaned, seen) ==
    IF entries = <<>> THEN cleaned
    ELSE LET vs == getISBNVariants(entries[1].k)
             alreadySeen == \E n \in 1..Len(vs) : vs[n] \in seen
         IN  IF ~alreadySeen
             THEN CleanLoop(Tail(entries),
                            Put(cleaned, PreferredISBN(vs, entries[1].k), entries[1].v),
                            seen \cup {vs[n] : n \in 1..Len(vs)})
             ELSE CleanLoop(Tail(entries), cleaned, seen)

cleanDatabase(obj) == CleanLoop(obj, <<>>, {})

(***************************************************************************)
(* Arguments of the store operations                                       *)
(***************************************************************************)
\* number of store operations in one run
MaxOps == 3
\* last value of the clock
MaxClock == 1
\* number of entries of an imported object
MaxImport == 1

\* 9780156013987, its ISBN-10 form 0156013983, the ten characters 0156013987
\* (same body, another tenth character), and 9792401084628
A13 == Prefix978 \o BodyA \o <<"7">>
A10 == BodyA \o <<"3">>
A10x == BodyA \o <<"7">>
B13 == Prefix979 \o BodyB \o <<"8">>
\* 9780156013980: the thirteen digits of 9780156013987 with another check
\* digit, which validateISBN accepts
A13w == Prefix978 \o BodyA \o <<"0">>

ClientIsbns == {A10, A10x, A13, B13}

BookInfos == {[title |-> "T1"], [pageCount |-> 96], [title |-> "T2", source |-> "google_api"]}

FieldEdits == {[title |-> "T3"], [pageCount |-> 97]}

ImportedBook == [title |-> "T0", lastUpdated |-> 0]

\* objects of at most n entries with distinct keys among ks, each with value b
RECURSIVE ObjectsOver(_, _, _)
ObjectsOver(ks, b, n) ==
    IF n = 0 THEN {<<>>}
    ELSE LET shorter == ObjectsOver(ks, b, n - 1)
         IN  shorter \cup {Append(o, [k |-> key, v |-> b]) :
                              o \in {x \in shorter : Len(x) = n - 1}, key \in ks}

DistinctKeys(obj) == Cardinality(KeySet(obj)) = Len(obj)

ExportedDatas ==
    {[books |-> o] : o \in {x \in ObjectsOver({A10, A13}, ImportedBook, MaxImport) : DistinctKeys(x)}}
        \cup {[exportDate |-> 0]}

(***************************************************************************)
(* Browser store: one step per call of a BookDatabase method               *)
(***************************************************************************)
InitClient ==
    /\ PureIdle
    /\ StoreIdle

ClientFrame ==
    UNCHANGED <<isbn, val, calls, verdict, variants, books, rows, inflight, file,
                currentRequest, ui, searches>>

\* time passes
Tick ==
    /\ clock < MaxClock
    /\ clock' = clock + 1
    /\ UNCHANGED <<isbn, val, calls, verdict, variants, data, books, rows, inflight, last, nops,
                   file, currentRequest, ui, searches>>

AddBook ==
    \E i \in ClientIsbns, bookInfo \in BookInfos :
        /\ nops < MaxOps
        /\ data' = addBook(data, i, bookInfo, clock)
        /\ last' = [op |-> "addBook", isbn |-> i, info |-> bookInfo, pre |-> data, now |-> clock]
        /\ nops' = nops + 1
        /\ UNCHANGED clock
        /\ ClientFrame

UpdateBookField ==
    \E i \in ClientIsbns, edit \in FieldEdits :
        /\ nops < MaxOps
        /\ data' = updateBookField(data, i, edit, clock)
        /\ last' = [op |-> "updateBookField", isbn |-> i, info |-> edit, pre |-> data,
                    now |-> clock, ret |-> findBook(data, i) # <<>>]
        /\ nops' = nops + 1
        /\ UNCHANGED clock
        /\ ClientFrame

DeleteBook ==
    \E i \in ClientIsbns :
        /\ nops < MaxOps
        /\ data' = deleteBook(data, i)
        /\ last' = [op |-> "deleteBook", isbn |-> i, pre |-> data,
                    ret |-> deleteBookResult(data, i), saved |-> deleteBookSaves(data, i)]
        /\ nops' = nops + 1
        /\ UNCHANGED clock
        /\ ClientFrame

ImportDatabase ==
    \E exportedData \in ExportedDatas :
        /\ nops < MaxOps
        /\ data' = importDatabase(data, exportedData)
        /\ last' = [op |-> "importDatabase", arg |-> exportedData, pre |-> data,
                    ret |-> "books" \in DOMAIN exportedData]
        /\ nops' = nops + 1
        /\ UNCHANGED clock
        /\ ClientFrame

FindBook ==
    \E i \in ClientIsbns :
        /\ nops < MaxOps
        /\ last' = [op |-> "findBook", isbn |-> i, pre |-> data, ret |-> findBook(data, i)]
        /\ nops' = nops + 1
        /\ UNCHANGED <<data, clock>>
        /\ ClientFrame

CleanDatabase ==
    /\ nops < MaxOps
    /\ data' = cleanDatabase(data)
    /\ last' = [op |-> "cleanDatabase", pre |-> data, ret |-> Len(data) - Len(cleanDatabase(data))]
    /\ nops' = nops + 1
    /\ UNCHANGED clock
    /\ ClientFrame

NextClient ==
    \/ Tick
    \/ FindBook
    \/ AddBook
    \/ UpdateBookField
    \/ DeleteBook
    \/ ImportDatabase
    \/ CleanDatabase

Spec == InitClient /\ [][NextClient]_vars

(***************************************************************************)
(* server.js, books.json version: ISBNServer with this.books               *)
(***************************************************************************)
\* the book without property f
Without(book, f) == [x \in DOMAIN book \ {f} |-> book[x]]

\* findBookByISBN: null (the empty list) or <<{book, foundISBN}>>
JsonFindBookByISBN(obj, i) ==
    LET hit == FirstHit(obj, ServerGetISBNVariants(i))
    IN  IF hit = <<>> THEN <<>>
        ELSE <<[book |-> Get(obj, hit[1]), foundISBN |-> hit[1]]>>

\* HTTP status of createBook for the request body
JsonCreateBookStatus(obj, body) ==
    IF "isbn" \notin DOMAIN body \/ body.isbn = <<>> THEN 400
    ELSE IF ~ServerValidateISBN(body.isbn).valid THEN 400
    ELSE IF JsonFindBookByISBN(obj, ServerValidateISBN(body.isbn).isbn) # <<>> THEN 409
    ELSE 201

\* this.books after createBook
JsonCreateBook(obj, body, now) ==
    IF JsonCreateBookStatus(obj, body) # 201 THEN obj
    ELSE LET bookData == Without(body, "isbn")
             normalizedISBN == ServerNormalizeISBN(ServerValidateISBN(body.isbn).isbn)
             newBook == Spread(bookData, [isbn |-> normalizedISBN, createdAt |-> now,
                                          updatedAt |-> now, source |-> "user_created"])
         IN  Put(obj, normalizedISBN, newBook)

\* HTTP status of updateBook and of deleteBook
JsonKeyStatus(obj, i) ==
    IF ~ServerValidateISBN(i).valid THEN 400
    ELSE IF ~Has(obj, ServerValidateISBN(i).isbn) THEN 404
    ELSE 200

\* this.books after updateBook
JsonUpdateBook(obj, i, updates, now) ==
    IF JsonKeyStatus(obj, i) # 200 THEN obj
    ELSE LET key == ServerValidateISBN(i).isbn
         IN  Put(obj, key, Spread(Spread(Get(obj, key), updates),
                                  [isbn |-> key, updatedAt |-> now]))

\* this.books after deleteBook
JsonDeleteBook(obj, i) ==
    IF JsonKeyStatus(obj, i) # 200 THEN obj ELSE Del(obj, ServerValidateISBN(i).isbn)

\* the loop of importFromLocalStorage over Object.entries(books)
RECURSIVE JsonImportLoop(_, _, _)
JsonImportLoop(obj, entries, now) ==
    IF entries = <<>> THEN obj
    ELSE LET validation == ServerValidateISBN(entries[1].k)
             bookData == entries[1].v
         IN  IF ~validation.valid THEN JsonImportLoop(obj, Tail(entries), now)
             ELSE LET normalizedISBN == ServerNormalizeISBN(validation.isbn)
                      merged == IF Has(obj, normalizedISBN)
                                THEN Spread(Spread(Get(obj, normalizedISBN), bookData),
                                            [updatedAt |-> now])
                                ELSE Spread(bookData, [isbn |-> normalizedISBN,
                                                       createdAt |-> now, updatedAt |-> now])
                  IN  JsonImportLoop(Put(obj, normalizedISBN, merged), Tail(entries), now)

\* this.books after importFromLocalStorage
JsonImportFromLocalStorage(obj, body, now) ==
    IF "books" \notin DOMAIN body THEN obj ELSE JsonImportLoop(obj, body.books, now)

(***************************************************************************)
(* Arguments of the server requests                                        *)
(***************************************************************************)
ServerIsbns == {A10, A13, B13}

CreateBodies == {Spread(info, [isbn |-> i]) : i \in ServerIsbns, info \in BookInfos}

\* bodies of PUT /api/books/:isbn; one carries an isbn property of its own
UpdateBodies == BookInfos \cup {[title |-> "T3", isbn |-> A10]}

\* contents of data/books.json when the server starts: no file, or a file
\* written before keys were normalised
LegacyBook == [title |-> "T0", isbn |-> A10, createdAt |-> 0, updatedAt |-> 0]

BooksFiles == {<<>>, <<[k |-> A10, v |-> LegacyBook]>>}

\* bodies of POST /api/sync/import: what the browser exports, and a book that
\* a server exported (it carries isbn, createdAt and updatedAt)
ImportBodies == ExportedDatas \cup {[books |-> <<[k |-> A10, v |-> LegacyBook]>>]}

(***************************************************************************)
(* books.json server: one step per request                                 *)
(***************************************************************************)
\* loadDatabase
InitJson ==
    /\ PureIdle
    /\ data = <<>>
    /\ books \in BooksFiles
    /\ rows = <<>>
    /\ inflight = <<>>
    /\ last = [op |-> "init"]
    /\ clock = 0
    /\ nops = 0
    /\ file = books
    /\ SearchIdle

JsonFrame ==
    UNCHANGED <<isbn, val, calls, verdict, variants, data, rows, inflight, clock,
                currentRequest, ui, searches>>

JsonGetBookReq ==
    \E i \in ServerIsbns :
        /\ nops < MaxOps
        /\ last' = [op |-> "json.getBook", isbn |-> i, pre |-> books,
                    status |-> IF ~ServerValidateISBN(i).valid THEN 400
                               ELSE IF JsonFindBookByISBN(books, ServerValidateISBN(i).isbn) = <<>>
                                    THEN 404 ELSE 200,
                    found |-> IF ServerValidateISBN(i).valid
                              THEN JsonFindBookByISBN(books, ServerValidateISBN(i).isbn) ELSE <<>>]
        /\ nops' = nops + 1
        /\ UNCHANGED <<books, file>>
        /\ JsonFrame

JsonCreateBookReq ==
    \E body \in CreateBodies :
        /\ nops < MaxOps
        /\ books' = JsonCreateBook(books, body, clock)
        /\ file' = books'
        /\ last' = [op |-> "json.createBook", isbn |-> body.isbn, info |-> body, pre |-> books,
                    now |-> clock, status |-> JsonCreateBookStatus(books, body)]
        /\ nops' = nops + 1
        /\ JsonFrame

JsonUpdateBookReq ==
    \E i \in ServerIsbns, updates \in UpdateBodies :
        /\ nops < MaxOps
        /\ books' = JsonUpdateBook(books, i, updates, clock)
        /\ file' = books'
        /\ last' = [op |-> "json.updateBook", isbn |-> i, info |-> updates, pre |-> books,
                    now |-> clock, status |-> JsonKeyStatus(books, i)]
        /\ nops' = nops + 1
        /\ JsonFrame

JsonDeleteBookReq ==
    \E i \in ServerIsbns :
        /\ nops < MaxOps
        /\ books' = JsonDeleteBook(books, i)
        /\ file' = books'
        /\ last' = [op |-> "json.deleteBook", isbn |-> i, pre |-> books,
                    status |-> JsonKeyStatus(books, i)]
        /\ nops' = nops + 1
        /\ JsonFrame

JsonImportReq ==
    \E body \in ImportBodies :
        /\ nops < MaxOps
        /\ books' = JsonImportFromLocalStorage(books, body, clock)
        /\ file' = books'
        /\ last' = [op |-> "json.import", arg |-> body, pre |-> books, now |-> clock,
                    status |-> IF "books" \in DOMAIN body THEN 200 ELSE 400]
        /\ nops' = nops + 1
        /\ JsonFrame

NextJson ==
    \/ Tick
    \/ JsonGetBookReq
    \/ JsonCreateBookReq
    \/ JsonUpdateBookReq
    \/ JsonDeleteBookReq
    \/ JsonImportReq

SpecJson == InitJson /\ [][NextJson]_vars

(***************************************************************************)
(* server.js, Postgres version: table books(isbn PRIMARY KEY, data)        *)
(***************************************************************************)
MaxInflight == 2

\* positions of the rows selected by WHERE isbn = ANY(variants)
PgMatches(tbl, i) ==
    LET vs == ServerGetISBNVariants(i)
    IN  {j \in 1..Len(tbl) : \E n \in 1..Len(vs) : tbl[j].k = vs[n]}

\* findBookByISBN when the query returns row j first
PgFound(tbl, j) ==
    <<[book |-> tbl[j].v,
       foundISBN |-> IF "isbn" \in DOMAIN tbl[j].v THEN tbl[j].v.isbn ELSE Null]>>

\* HTTP status of createBook for the request body
PgCreateBookStatus(body) ==
    IF "isbn" \notin DOMAIN body \/ body.isbn = <<>> THEN 400
    ELSE IF ~ServerValidateISBN(body.isbn).valid THEN 400
    ELSE 201

\* the table after INSERT ... ON CONFLICT (isbn) DO UPDATE SET data = EXCLUDED.data
PgCreateBook(tbl, body, now) ==
    IF PgCreateBookStatus(body) # 201 THEN tbl
    ELSE LET normalizedISBN == ServerNormalizeISBN(ServerValidateISBN(body.isbn).isbn)
             finalBookData == Spread(body, [isbn |-> normalizedISBN,
                                            createdAt |-> now, updatedAt |-> now])
         IN  Put(tbl, normalizedISBN, finalBookData)

\* updateBook, step 2: the merge of the selected row with the request body
PgUpdatedData(existing, bookData, now) ==
    Spread(Spread(existing, bookData), [updatedAt |-> now])

\* the table after UPDATE books SET data = $1 WHERE isbn = $2
PgUpdate(tbl, key, updatedData) ==
    IF Has(tbl, key) THEN Put(tbl, key, updatedData) ELSE tbl

\* the table after DELETE FROM books WHERE isbn = $1
PgDeleteBook(tbl, i) ==
    IF ~ServerValidateISBN(i).valid THEN tbl
    ELSE Del(tbl, ServerNormalizeISBN(ServerValidateISBN(i).isbn))

\* HTTP status of deleteBook
PgDeleteBookStatus(tbl, i) ==
    IF ~ServerValidateISBN(i).valid THEN 400
    ELSE IF Has(tbl, ServerNormalizeISBN(ServerValidateISBN(i).isbn)) THEN 204
    ELSE 404

\* what the query of importFromLocalStorage does for one entry
PgImportOutcome(tbl, entry, now) ==
    IF ~ServerValidateISBN(entry.k).valid THEN "invalid"
    ELSE LET normalizedISBN == ServerNormalizeISBN(ServerValidateISBN(entry.k).isbn)
         IN  IF ~Has(tbl, normalizedISBN) THEN "inserted"
             ELSE IF /\ "updatedAt" \in DOMAIN Get(tbl, normalizedISBN)
                     /\ Get(tbl, normalizedISBN).updatedAt < now
                  THEN "updated"
                  ELSE "skipped"

\* the table after the query of importFromLocalStorage for one entry
PgImportEntry(tbl, entry, now) ==
    LET outcome == PgImportOutcome(tbl, entry, now)
        normalizedISBN == ServerNormalizeISBN(ServerValidateISBN(entry.k).isbn)
        bookData == entry.v
        finalBookData == Spread(bookData,
                                [isbn |-> normalizedISBN,
                                 createdAt |-> IF "createdAt" \in DOMAIN bookData
                                               THEN bookData.createdAt ELSE now,
                                 updatedAt |-> now])
    IN  CASE outcome = "inserted" -> Put(tbl, normalizedISBN, finalBookData)
          [] outcome = "updated" ->
                Put(tbl, normalizedISBN, Spread(Get(tbl, normalizedISBN), [updatedAt |-> now]))
          [] OTHER -> tbl

\* the sequence without its element at position j
RemoveAt(seq, j) == SubSeq(seq, 1, j - 1) \o SubSeq(seq, j + 1, Len(seq))

(***************************************************************************)
(* Postgres server: one step per query                                     *)
(***************************************************************************)
\* setupDatabase: the migration of books.json into the empty table
InitPg ==
    /\ PureIdle
    /\ data = <<>>
    /\ books = <<>>
    /\ rows \in BooksFiles
    /\ inflight = <<>>
    /\ last = [op |-> "init"]
    /\ clock = 0
    /\ nops = 0
    /\ file = <<>>
    /\ SearchIdle

PgFrame ==
    UNCHANGED <<isbn, val, calls, verdict, variants, data, books, clock, file,
                currentRequest, ui, searches>>

PgGetBookReq ==
    \E i \in ServerIsbns :
        /\ nops < MaxOps
        /\ \/ /\ ~ServerValidateISBN(i).valid
              /\ last' = [op |-> "pg.getBook", isbn |-> i, pre |-> rows, status |-> 400,
                          found |-> <<>>]
           \/ /\ ServerValidateISBN(i).valid
              /\ PgMatches(rows, ServerValidateISBN(i).isbn) = {}
              /\ last' = [op |-> "pg.getBook", isbn |-> i, pre |-> rows, status |-> 404,
                          found |-> <<>>]
           \/ /\ ServerValidateISBN(i).valid
              /\ \E j \in PgMatches(rows, ServerValidateISBN(i).isbn) :
                    last' = [op |-> "pg.getBook", isbn |-> i, pre |-> rows, status |-> 200,
                             found |-> PgFound(rows, j)]
        /\ nops' = nops + 1
        /\ UNCHANGED <<rows, inflight>>
        /\ PgFrame

PgCreateBookReq ==
    \E body \in CreateBodies :
        /\ nops < MaxOps
        /\ rows' = PgCreateBook(rows, body, clock)
        /\ last' = [op |-> "pg.createBook", isbn |-> body.isbn, info |-> body, pre |-> rows,
                    now |-> clock, status |-> PgCreateBookStatus(body)]
        /\ nops' = nops + 1
        /\ UNCHANGED inflight
        /\ PgFrame

\* updateBook up to the answer of its SELECT
PgUpdateBookSelect ==
    \E i \in ServerIsbns, bookData \in UpdateBodies :
        /\ nops < MaxOps
        /\ Len(inflight) < MaxInflight
        /\ nops' = nops + 1
        /\ UNCHANGED rows
        /\ PgFrame
        /\ IF ~ServerValidateISBN(i).valid
           THEN /\ last' = [op |-> "pg.updateBook", isbn |-> i, info |-> bookData,
                            pre |-> rows, status |-> 400]
                /\ UNCHANGED inflight
           ELSE LET normalizedISBN == ServerNormalizeISBN(ServerValidateISBN(i).isbn)
                IN  IF ~Has(rows, normalizedISBN)
                    THEN /\ last' = [op |-> "pg.updateBook", isbn |-> i, info |-> bookData,
                                     pre |-> rows, status |-> 404]
                         /\ UNCHANGED inflight
                    ELSE /\ inflight' = Append(inflight,
                                [op |-> "updateBook", isbn |-> i, key |-> normalizedISBN,
                                 info |-> bookData, existing |-> Get(rows, normalizedISBN),
                                 at |-> clock])
                         /\ UNCHANGED last

\* updateBook from the merge to the answer of its UPDATE
PgUpdateBookWrite ==
    \E j \in 1..Len(inflight) :
        /\ inflight[j].op = "updateBook"
        /\ \E now \in inflight[j].at..clock :
            LET r == inflight[j]
                updatedData == PgUpdatedData(r.existing, r.info, now)
            IN  /\ rows' = PgUpdate(rows, r.key, updatedData)
                /\ last' = [op |-> "pg.updateBook", isbn |-> r.isbn, info |-> r.info,
                            pre |-> rows, read |-> r.existing, now |-> now,
                            status |-> IF Has(rows, r.key) THEN 200 ELSE 500]
        /\ inflight' = RemoveAt(inflight, j)
        /\ UNCHANGED nops
        /\ PgFrame

PgDeleteBookReq ==
    \E i \in ServerIsbns :
        /\ nops < MaxOps
        /\ rows' = PgDeleteBook(rows, i)
        /\ last' = [op |-> "pg.deleteBook", isbn |-> i, pre |-> rows,
                    status |-> PgDeleteBookStatus(rows, i)]
        /\ nops' = nops + 1
        /\ UNCHANGED inflight
        /\ PgFrame

\* importFromLocalStorage up to db.connect()
PgImportStart ==
    \E body \in ImportBodies :
        /\ nops < MaxOps
        /\ Len(inflight) < MaxInflight
        /\ nops' = nops + 1
        /\ UNCHANGED rows
        /\ PgFrame
        /\ IF "books" \notin DOMAIN body
           THEN /\ last' = [op |-> "pg.import", arg |-> body, pre |-> rows, status |-> 400]
                /\ UNCHANGED inflight
           ELSE /\ inflight' = Append(inflight, [op |-> "import", arg |-> body,
                                                  entries |-> body.books])
                /\ UNCHANGED last

\* one iteration of the loop of importFromLocalStorage
PgImportStep ==
    \E j \in 1..Len(inflight) :
        /\ inflight[j].op = "import"
        /\ inflight[j].entries # <<>>
        /\ LET entry == Head(inflight[j].entries)
           IN  /\ rows' = PgImportEntry(rows, entry, clock)
               /\ last' = [op |-> "pg.importEntry", isbn |-> entry.k, info |-> entry.v,
                           pre |-> rows, now |-> clock,
                           status |-> PgImportOutcome(rows, entry, clock)]
        /\ inflight' = [inflight EXCEPT ![j].entries = Tail(@)]
        /\ UNCHANGED nops
        /\ PgFrame

\* importFromLocalStorage after the loop: the count and the answer
PgImportDone ==
    \E j \in 1..Len(inflight) :
        /\ inflight[j].op = "import"
        /\ inflight[j].entries = <<>>
        /\ last' = [op |-> "pg.import", arg |-> inflight[j].arg, pre |-> rows,
                    status |-> 200, total |-> Len(rows)]
        /\ inflight' = RemoveAt(inflight, j)
        /\ UNCHANGED <<rows, nops>>
        /\ PgFrame

NextPg ==
    \/ Tick
    \/ PgGetBookReq
    \/ PgCreateBookReq
    \/ PgUpdateBookSelect
    \/ PgUpdateBookWrite
    \/ PgDeleteBookReq
    \/ PgImportStart
    \/ PgImportStep
    \/ PgImportDone

SpecPg == InitPg /\ [][NextPg]_vars

(***************************************************************************)
(* public/js/api.js, app.js, ui.js: a search from the page.  One step is    *)
(* one task of the event loop (a click, the answer of a fetch, the unload  *)
(* of the page) together with every promise continuation it makes ready.   *)
(***************************************************************************)
\* the services tried by searchGoogleBooks, in order
Services == <<"Backend local", "corsproxy.io", "cors.sh", "API directe (peut échouer)">>

AbortError == [name |-> "AbortError", message |-> "The user aborted a request."]

\* new Error(`Tous les services ont échoué. Dernière erreur: ${error.message}`)
AllFailed(error) ==
    [name |-> "Error", message |-> "Tous les services ont échoué", cause |-> error.message]

\* the catch inside the service loop, entered with the rejection of the fetch
\* of service i on a signal that is aborted: the last service throws, any
\* other continues with the next fetch, which rejects at once on that signal
\* without a request
RECURSIVE AbortedLoop(_, _, _)
AbortedLoop(i, error, fetches) ==
    IF i = Len(Services) THEN [thrown |-> AllFailed(error), fetches |-> fetches, requests |-> 0]
    ELSE AbortedLoop(i + 1, AbortError, fetches + 1)

\* the outer catch of searchGoogleBooks: what the call rejects with
OuterCatch(error) ==
    IF error.name = "AbortError" THEN [name |-> "Error", message |-> "Recherche annulée"]
    ELSE error

\* what searchGoogleBooks rejects with when its signal is aborted while it
\* waits on service i
AbortedRejection(i) == OuterCatch(AbortedLoop(i, AbortError, 0).thrown)

\* searchByISBN, catch: the result for a rejected searchGoogleBooks
CaughtResult(error) == [success |-> FALSE, error |-> error.message]

\* searchByISBN: the result for a searchGoogleBooks that found nothing
NotFoundResult(clean) == [success |-> FALSE, error |-> "Livre non trouvé", isbn |-> clean]

\* searchBook after its await: what the result makes #results show
Shown(id, clean, result) ==
    IF result.success THEN [kind |-> "book", by |-> id, isbn |-> clean, source |-> result.source]
    ELSE [kind |-> "prompt", by |-> id, isbn |-> clean]

\* showError(message)
ShownError(message) == [kind |-> "error", by |-> 0, message |-> message]

\* the call in flight whose controller is currentRequest, as a list
Current == SelectSeq(inflight, LAMBDA c : currentRequest # <<>> /\ c.id = currentRequest[1])

\* the record of a call that abort() ends: where it waited, what its
\* searchGoogleBooks rejects with, how many requests it sends afterwards
Ended(c) ==
    [id |-> c.id, isbn |-> c.isbn, service |-> c.i, error |-> AbortedRejection(c.i),
     fetches |-> AbortedLoop(c.i, AbortError, 0).fetches,
     requests |-> AbortedLoop(c.i, AbortError, 0).requests]

\* what the page is given to search: both forms of a book, another book, the
\* sentinel, five digits, nothing
SearchInputs == {A10, A13, B13, Sentinel, <<"1", "2", "3", "4", "5">>, <<>>}

\* volumeInfo of the first item a service answers with
VolumeInfos == {[title |-> "T1"]}

\* what a fetch ends in: items, no items, or an error (network, HTTP status)
Answers == {"items", "empty", "error"}

SearchFrame == UNCHANGED <<isbn, val, calls, verdict, variants, books, rows, file>>

\* the inflight list without the call whose controller is currentRequest
NotCurrent == SelectSeq(inflight, LAMBDA c : currentRequest = <<>> \/ c.id # currentRequest[1])

\* the page after abort() has ended the call c: its searchGoogleBooks has
\* cleared currentRequest in finally, its searchByISBN has returned the caught
\* result and its searchBook has shown it and hidden #loading
ShownByEnded(c) ==
    [results |-> Shown(c.id, c.isbn, CaughtResult(Ended(c).error)), loading |-> FALSE]

\* a click on the search button: searchBook with the content of #isbnInput
SearchBook ==
    \E input \in SearchInputs :
        /\ nops < MaxOps
        /\ nops' = nops + 1
        /\ UNCHANGED <<data, clock>>
        /\ SearchFrame
        /\ IF input = <<>> \/ ~validateISBN(input).valid
           THEN /\ ui' = [ui EXCEPT !.results =
                              ShownError(IF input = <<>> THEN "Veuillez entrer un ISBN"
                                         ELSE validateISBN(input).error)]
                /\ last' = [op |-> "searchBook", isbn |-> input, valid |-> FALSE]
                /\ UNCHANGED <<inflight, currentRequest, searches>>
           ELSE LET clean == cleanISBN(validateISBN(input).isbn)
                    id == searches + 1
                    cachedBook == findBook(data, clean)
                    answered == cachedBook # <<>> \/ clean = Sentinel
                    result == IF cachedBook # <<>> THEN [success |-> TRUE, source |-> "cache"]
                              ELSE [success |-> TRUE, source |-> "easter_egg"]
                IN  /\ searches' = id
                    /\ inflight' = IF answered THEN NotCurrent
                                   ELSE Append(NotCurrent,
                                               [op |-> "search", id |-> id, isbn |-> clean, i |-> 1])
                    /\ currentRequest' = IF answered \/ Current # <<>> THEN <<>> ELSE <<id>>
                    /\ ui' = IF Current # <<>> THEN ShownByEnded(Current[1])
                             ELSE IF answered
                                  THEN [results |-> Shown(id, clean, result), loading |-> FALSE]
                                  ELSE [results |-> ui.results, loading |-> TRUE]
                    /\ last' = [op |-> "searchBook", isbn |-> input, valid |-> TRUE, id |-> id,
                                pre |-> data,
                                source |-> IF answered THEN result.source ELSE "",
                                requested |-> ~answered,
                                ended |-> IF Current # <<>> THEN <<Ended(Current[1])>> ELSE <<>>]

\* the fetch of a call in flight ends
FetchAnswer ==
    \E j \in 1..Len(inflight), answer \in Answers, volumeInfo \in VolumeInfos :
        LET c == inflight[j]
            found == answer = "items"
            lastService == c.i = Len(Services)
            result == IF found THEN [success |-> TRUE, source |-> Services[c.i]]
                      ELSE IF answer = "empty" THEN NotFoundResult(c.isbn)
                      ELSE CaughtResult(OuterCatch(AllFailed([name |-> "Error",
                                                              message |-> "Failed to fetch"])))
        IN  /\ c.op = "search"
            /\ UNCHANGED <<nops, clock, searches>>
            /\ SearchFrame
            /\ IF ~found /\ ~lastService
               THEN /\ inflight' = [inflight EXCEPT ![j].i = @ + 1]
                    /\ last' = [op |-> "fetchAnswer", id |-> c.id, isbn |-> c.isbn,
                                done |-> FALSE]
                    /\ UNCHANGED <<data, currentRequest, ui>>
               ELSE /\ inflight' = RemoveAt(inflight, j)
                    /\ currentRequest' = <<>>
                    /\ data' = IF found
                               THEN addBook(data, c.isbn,
                                            Spread(volumeInfo, [source |-> "google_api"]), clock)
                               ELSE data
                    /\ ui' = [results |-> Shown(c.id, c.isbn, result), loading |-> FALSE]
                    /\ last' = [op |-> "fetchAnswer", id |-> c.id, isbn |-> c.isbn,
                                answer |-> answer, done |-> TRUE, result |-> result]

\* the page unloads: cleanup calls cancelCurrentSearch
Cleanup ==
    /\ nops < MaxOps
    /\ nops' = nops + 1
    /\ UNCHANGED <<data, clock, searches>>
    /\ SearchFrame
    /\ inflight' = NotCurrent
    /\ currentRequest' = <<>>
    /\ ui' = IF Current # <<>> THEN ShownByEnded(Current[1]) ELSE ui
    /\ last' = [op |-> "cleanup",
                ended |-> IF Current # <<>> THEN <<Ended(Current[1])>> ELSE <<>>]

InitSearch ==
    /\ PureIdle
    /\ StoreIdle

NextSearch ==
    \/ SearchBook
    \/ FetchAnswer
    \/ Cleanup
    \/ DeleteBook

SpecSearch == InitSearch /\ [][NextSearch]_vars

(***************************************************************************)
(* Reference notions used to state the properties: the standard check      *)
(* equations of ISBN-10 and EAN-13, and the shape of a canonical key       *)
(***************************************************************************)
CharVal10(c) == IF c = "X" THEN 10 ELSE parseInt(c)

IsIsbn10Shape(x) == Len(x) = 10 /\ AllDigits(x, 9) /\ x[10] \in DigitChars \cup {"X"}

RECURSIVE Check10Sum(_, _)
Check10Sum(x, i) == IF i > 10 THEN 0 ELSE (11 - i) * CharVal10(x[i]) + Check10Sum(x, i + 1)

\* x is an ISBN-10 whose tenth character is its check character
ValidCheck10(x) == IsIsbn10Shape(x) /\ Check10Sum(x, 1) % 11 = 0

RECURSIVE Ean13Sum(_, _)
Ean13Sum(y, i) ==
    IF i > 13 THEN 0 ELSE (IF i % 2 = 1 THEN 1 ELSE 3) * parseInt(y[i]) + Ean13Sum(y, i + 1)

\* y is thirteen digits whose last digit is the EAN-13 check digit
ValidEan13(y) == Len(y) = 13 /\ AllDigits(y, 13) /\ Ean13Sum(y, 1) % 10 = 0

\* thirteen digits beginning with 978 or 979, or the sentinel
IsCanonicalKey(s) ==
    \/ s = Sentinel
    \/ /\ s # Null
       /\ Len(s) = 13
       /\ AllDigits(s, 13)
       /\ (startsWith(s, Prefix978) \/ startsWith(s, Prefix979))

(***************************************************************************)
(* Properties of the pure functions (checked under SpecPure)               *)
(***************************************************************************)

\* C7: for every identifier that validate accepts, in the client validator and
\* in the server validator, normalize returns thirteen digits beginning with
\* 978 or 979, or the sentinel.
C7_NormalizeOfValidIsIsbn13 ==
    /\ (calls = <<"normalizeISBN">> /\ validateISBN(isbn).valid) => IsCanonicalKey(val)
    /\ (calls = <<"ServerNormalizeISBN">> /\ ServerValidateISBN(isbn).valid) => IsCanonicalKey(val)

\* C8: the sentinel, with or without hyphens and whitespace, is reported valid
\* by the client validator and by the server validator, and normalize returns
\* it unchanged.
C8_SentinelAlwaysValid ==
    cleanISBN(isbn) = Sentinel =>
        /\ calls \in {<<"validateISBN">>, <<"ServerValidateISBN">>} => verdict.valid
        /\ calls \in {<<"normalizeISBN">>, <<"ServerNormalizeISBN">>} => val = Sentinel

\* C9 (as stated): for every 10-character x that validate accepts,
\* toISBN10(toISBN13(x)) = x.
C9_RoundTripOfAccepted ==
    (/\ calls = <<"convertISBN10ToISBN13", "convertISBN13ToISBN10">>
     /\ Len(isbn) = 10
     /\ validateISBN(isbn).valid)
        => val = isbn

\* C9 (amended): for every 10-character x of nine digits followed by its
\* correct ISBN-10 check character (a digit or X), toISBN10(toISBN13(x)) = x.
C9_RoundTripOfChecked ==
    (/\ calls = <<"convertISBN10ToISBN13", "convertISBN13ToISBN10">>
     /\ ValidCheck10(isbn))
        => val = isbn

\* C9 witness: the round trip has been applied to an ISBN-10 ending in X
C9_Witness ==
    /\ calls = <<"convertISBN10ToISBN13", "convertISBN13ToISBN10">>
    /\ ValidCheck10(isbn)
    /\ isbn[10] = "X"
    /\ val = isbn

\* C10: for every 978-prefixed 13-digit y with a correct EAN-13 check digit,
\* toISBN10(y) is digits 4..12 of y followed by a digit or X, and
\* toISBN13(toISBN10(y)) = y.
C10_RoundTripFrom13 ==
    (ValidEan13(isbn) /\ startsWith(isbn, Prefix978)) =>
        /\ calls = <<"convertISBN13ToISBN10">> =>
              /\ val # Null
              /\ Len(val) = 10
              /\ SubSeq(val, 1, 9) = SubSeq(isbn, 4, 12)
              /\ val[10] \in DigitChars \cup {"X"}
        /\ calls = <<"convertISBN13ToISBN10", "convertISBN10ToISBN13">> => val = isbn

\* C10 witness: 9782401084629 has been converted to ISBN-10 and back
C10_Witness ==
    /\ isbn = Prefix978 \o BodyB \o <<"9">>
    /\ calls = <<"convertISBN13ToISBN10", "convertISBN10ToISBN13">>
    /\ val = isbn

\* C11: normalize is idempotent, in the client and in the server: applying it
\* to its own result returns that result, for every argument (anomalous
\* lengths, hyphens and whitespace, 10 characters with a non-digit included).
C11_NormalizeIdempotent ==
    [][/\ (calls = <<"normalizeISBN">> /\ calls' = <<"normalizeISBN", "normalizeISBN">>)
            => val' = val
       /\ (calls = <<"ServerNormalizeISBN">>
           /\ calls' = <<"ServerNormalizeISBN", "ServerNormalizeISBN">>)
            => val' = val]_vars

\* C11 witness: normalize has been applied twice to 0-15-601398-7 written
\* with spaces, and the value is 9780156013987
C11_Witness ==
    /\ calls = <<"normalizeISBN", "normalizeISBN">>
    /\ isbn = <<"0", " ", "1", "5", " ", "6", "0", "1", "3", "9", "8", " ", "7">>
    /\ val = Prefix978 \o BodyA \o <<"7">>

\* C12: variants(x) is a non-empty list whose first element is clean(x), in
\* the client and in the server.
C12_VariantsStartWithClean ==
    /\ calls = <<"getISBNVariants">> =>
          (Len(variants) >= 1 /\ variants[1] = cleanISBN(isbn))
    /\ calls = <<"ServerGetISBNVariants">> =>
          (Len(variants) >= 1 /\ variants[1] = ServerCleanISBN(isbn))

\* C12 witness: the variants of 0 15 601398 7 are the cleaned argument
\* followed by its ISBN-13
C12_Witness ==
    /\ calls = <<"getISBNVariants">>
    /\ isbn = <<"0", " ", "1", "5", " ", "6", "0", "1", "3", "9", "8", " ", "7">>
    /\ variants = <<BodyA \o <<"7">>, Prefix978 \o BodyA \o <<"7">>>>

\* C13: for a 10-character argument whose first nine characters are digits,
\* toISBN13 (client convertISBN10ToISBN13, server normalizeISBN) returns 978,
\* the nine digits and one check digit that makes the 1/3-weighted sum of the
\* thirteen digits a multiple of 10; these conditions fix the result from the
\* nine digits alone, so it does not depend on the tenth character, and
\* toISBN13("0156013987") = "9780156013987".
C13_ToIsbn13Formula ==
    (/\ calls \in {<<"convertISBN10ToISBN13">>, <<"ServerNormalizeISBN">>}
     /\ Len(isbn) = 10
     /\ AllDigits(isbn, 9)) =>
        /\ val # Null
        /\ Len(val) = 13
        /\ SubSeq(val, 1, 3) = Prefix978
        /\ SubSeq(val, 4, 12) = SubSeq(isbn, 1, 9)
        /\ ValidEan13(val)
        /\ isbn = BodyA \o <<"7">> => val = Prefix978 \o BodyA \o <<"7">>

\* C13 witness: toISBN13 has been applied to 015601398A, whose tenth
\* character is not a digit, and returned 9780156013987
C13_Witness ==
    /\ calls = <<"convertISBN10ToISBN13">>
    /\ isbn = BodyA \o <<"A">>
    /\ val = Prefix978 \o BodyA \o <<"7">>

\* C14: validate reports the first failing rule in the order sentinel, length,
\* prefix, character classes, as a result object: a cleaned argument that is
\* not the sentinel fails with the length error when its length is neither
\* 10 nor 13, and with the prefix error when its length is 13 and it begins
\* with neither 978 nor 979, in the client and in the server validator.
C14_ValidateRuleOrder ==
    (/\ calls \in {<<"validateISBN">>, <<"ServerValidateISBN">>}
     /\ cleanISBN(isbn) # Sentinel) =>
        LET clean == cleanISBN(isbn)
        IN  /\ (Len(clean) # 10 /\ Len(clean) # 13) =>
                  verdict = [valid |-> FALSE, error |-> ErrLength]
            /\ (/\ Len(clean) = 13
                /\ ~startsWith(clean, Prefix978)
                /\ ~startsWith(clean, Prefix979)) =>
                  verdict = [valid |-> FALSE, error |-> ErrPrefix]

\* C15: the client validator answers {valid: true, isbn: clean(raw)} exactly
\* when clean(raw) is the sentinel, or nine digits followed by a digit or an
\* uppercase X, or thirteen digits beginning with 978 or 979; for every other
\* argument it answers valid: false.
C15_ClientValidatorExact ==
    calls = <<"validateISBN">> =>
        LET clean == cleanISBN(isbn)
            wellFormed == \/ clean = Sentinel
                          \/ IsIsbn10Shape(clean)
                          \/ /\ Len(clean) = 13
                             /\ AllDigits(clean, 13)
                             /\ SubSeq(clean, 1, 3) \in {Prefix978, Prefix979}
        IN  /\ wellFormed => verdict = [valid |-> TRUE, isbn |-> clean]
            /\ ~wellFormed => (verdict.valid = FALSE /\ "isbn" \notin DOMAIN verdict)

\* C15 witness: the validator has accepted 0 15 601398 7 written with spaces
\* and reported the cleaned string
C15_Witness ==
    /\ calls = <<"validateISBN">>
    /\ isbn = <<"0", " ", "1", "5", " ", "6", "0", "1", "3", "9", "8", " ", "7">>
    /\ verdict = [valid |-> TRUE, isbn |-> BodyA \o <<"7">>]

(***************************************************************************)
(* Properties of the browser store (checked under Spec)                    *)
(***************************************************************************)
\* x is the ISBN-10 form of the 978-prefixed ISBN-13 y
IsIsbn10Of(x, y) ==
    /\ ValidEan13(y)
    /\ startsWith(y, Prefix978)
    /\ ValidCheck10(x)
    /\ SubSeq(x, 1, 9) = SubSeq(y, 4, 12)

\* x is ten characters that share their nine-digit body with the ISBN-13 y
\* (the ISBN-10 form of y, or that form with another tenth character)
SharesBody(x, y) ==
    /\ ValidEan13(y)
    /\ startsWith(y, Prefix978)
    /\ IsIsbn10Shape(x)
    /\ SubSeq(x, 1, 9) = SubSeq(y, 4, 12)

\* book has every property of info with info's value
Carries(book, info) == \A f \in DOMAIN info : f \in DOMAIN book /\ book[f] = info[f]

\* C1: from an empty store, an addBook under the ISBN-13 form of a book
\* followed by an addBook under its ISBN-10 form (with any tenth character,
\* as in the pair 9780156013987 / 0156013987) leaves exactly one record, keyed
\* by the ISBN-13, that carries the fields of both calls.
C1_TwoFormsOneRecord ==
    [][(/\ last.op = "addBook"
        /\ last.pre = <<>>
        /\ last'.op = "addBook"
        /\ nops' = nops + 1
        /\ SharesBody(last'.isbn, last.isbn))
          => /\ Len(data') = 1
             /\ data'[1].k = last.isbn
             /\ Carries(data'[1].v, last'.info)
             /\ Carries(data'[1].v, [f \in DOMAIN last.info \ DOMAIN last'.info |-> last.info[f]])
      ]_vars

\* C1 witness: the store that held only a freshly created 9780156013987 (title
\* T1, no page count) has received addBook("0156013987", {pageCount: 96}) and
\* holds one record with both fields
C1_Witness ==
    /\ last.op = "addBook"
    /\ last.isbn = A10x
    /\ last.info = [pageCount |-> 96]
    /\ Len(last.pre) = 1
    /\ last.pre[1].k = A13
    /\ last.pre[1].v.title = "T1"
    /\ "pageCount" \notin DOMAIN last.pre[1].v
    /\ "foundWithISBN" \notin DOMAIN last.pre[1].v
    /\ Len(data) = 1
    /\ data[1].k = A13
    /\ data[1].v.title = "T1"
    /\ data[1].v.pageCount = 96

\* C4: after addBook(raw, fields) the store holds the book only under
\* normalize(raw): no other member of variants(raw) is a key of the store,
\* whatever the store contained before the call.
C4_OnlyCanonicalKeyRemains ==
    last.op = "addBook" =>
        LET vs == getISBNVariants(last.isbn)
            n == normalizeISBN(last.isbn)
        IN  /\ Has(data, n)
            /\ \A j \in 1..Len(vs) : vs[j] # n => ~Has(data, vs[j])

(***************************************************************************)
(* Properties of merges, deletes and lookups over the three stores         *)
(***************************************************************************)
\* the properties every merge refreshes: the identifier and the timestamps
Refreshed == {"isbn", "createdAt", "updatedAt", "lastUpdated"}

\* new keeps every property of old that incoming does not set
Preserves(old, incoming, new) ==
    \A f \in DOMAIN old \ (DOMAIN incoming \cup Refreshed) :
        f \in DOMAIN new /\ new[f] = old[f]

\* new has every property that incoming sets, with incoming's value
Wins(incoming, new) ==
    \A f \in DOMAIN incoming \ Refreshed : f \in DOMAIN new /\ new[f] = incoming[f]

\* the entries of an imported object that are valid and alone under their
\* canonical key
ImportedOnto(obj, entries) ==
    {j \in 1..Len(entries) :
        /\ ServerValidateISBN(entries[j].k).valid
        /\ Has(obj, ServerNormalizeISBN(entries[j].k))
        /\ \A n \in 1..Len(entries) :
              ServerNormalizeISBN(entries[n].k) = ServerNormalizeISBN(entries[j].k) => n = j}

\* C2: when incoming fields are written onto a book that already has a
\* record (client addBook, Postgres createBook on a conflicting key,
\* books.json import onto an existing key), every field of the existing
\* record that the incoming fields do not set, other than the identifier and
\* the timestamps, is in the stored record afterwards with the same value.
C2_MergePreservesAbsentFields ==
    /\ (last.op = "addBook" /\ FirstHit(last.pre, getISBNVariants(last.isbn)) # <<>>) =>
            /\ Has(data, normalizeISBN(last.isbn))
            /\ Preserves(Get(last.pre, FirstHit(last.pre, getISBNVariants(last.isbn))[1]),
                         last.info, Get(data, normalizeISBN(last.isbn)))
    /\ (/\ last.op = "pg.createBook"
        /\ last.status = 201
        /\ Has(last.pre, ServerNormalizeISBN(last.isbn))) =>
            /\ Has(rows, ServerNormalizeISBN(last.isbn))
            /\ Preserves(Get(last.pre, ServerNormalizeISBN(last.isbn)), last.info,
                         Get(rows, ServerNormalizeISBN(last.isbn)))
    /\ (last.op = "json.import" /\ last.status = 200) =>
            \A j \in ImportedOnto(last.pre, last.arg.books) :
                LET key == ServerNormalizeISBN(last.arg.books[j].k)
                IN  /\ Has(books, key)
                    /\ Preserves(Get(last.pre, key), last.arg.books[j].v, Get(books, key))

\* C3: when a merge writes incoming fields onto an existing record (client
\* addBook, server updateBook, server import onto an existing key), every
\* incoming field other than the identifier and the timestamps has the
\* incoming value in the stored record afterwards.
C3_IncomingFieldsWin ==
    /\ (last.op = "addBook" /\ FirstHit(last.pre, getISBNVariants(last.isbn)) # <<>>) =>
            /\ Has(data, normalizeISBN(last.isbn))
            /\ Wins(last.info, Get(data, normalizeISBN(last.isbn)))
    /\ (last.op = "json.updateBook" /\ last.status = 200) =>
            /\ Has(books, ServerValidateISBN(last.isbn).isbn)
            /\ Wins(last.info, Get(books, ServerValidateISBN(last.isbn).isbn))
    /\ (last.op = "pg.updateBook" /\ last.status = 200) =>
            /\ Has(rows, ServerNormalizeISBN(last.isbn))
            /\ Wins(last.info, Get(rows, ServerNormalizeISBN(last.isbn)))
    /\ (last.op = "json.import" /\ last.status = 200) =>
            \A j \in ImportedOnto(last.pre, last.arg.books) :
                LET key == ServerNormalizeISBN(last.arg.books[j].k)
                IN  Has(books, key) /\ Wins(last.arg.books[j].v, Get(books, key))
    /\ (last.op = "pg.importEntry" /\ last.status \in {"updated", "skipped"}) =>
            /\ Has(rows, ServerNormalizeISBN(last.isbn))
            /\ Wins(last.info, Get(rows, ServerNormalizeISBN(last.isbn)))

\* the elements of a list
Elems(seq) == {seq[j] : j \in 1..Len(seq)}

\* C5: a delete called with the ISBN-10 form of a book removes the record of
\* that book stored under the ISBN-13 key, and more generally under any
\* variant of the argument, in the client store and in both servers;
\* afterwards no variant of the argument is a key of the store and no lookup
\* by a variant returns a record stored under a variant.
C5_VariantAwareDelete ==
    /\ (/\ last.op = "deleteBook"
        /\ Len(cleanISBN(last.isbn)) = 10
        /\ \E v \in Elems(getISBNVariants(last.isbn)) : Has(last.pre, v)) =>
            /\ last.ret
            /\ \A v \in Elems(getISBNVariants(last.isbn)) :
                  /\ ~Has(data, v)
                  /\ \/ findBook(data, v) = <<>>
                     \/ findBook(data, v)[1].foundWithISBN \notin Elems(getISBNVariants(last.isbn))
    /\ (/\ last.op = "json.deleteBook"
        /\ Len(ServerCleanISBN(last.isbn)) = 10
        /\ \E v \in Elems(ServerGetISBNVariants(last.isbn)) : Has(last.pre, v)) =>
            \A v \in Elems(ServerGetISBNVariants(last.isbn)) :
                /\ ~Has(books, v)
                /\ \/ JsonFindBookByISBN(books, v) = <<>>
                   \/ JsonFindBookByISBN(books, v)[1].foundISBN
                          \notin Elems(ServerGetISBNVariants(last.isbn))
    /\ (/\ last.op = "pg.deleteBook"
        /\ Len(ServerCleanISBN(last.isbn)) = 10
        /\ \E v \in Elems(ServerGetISBNVariants(last.isbn)) : Has(last.pre, v)) =>
            \A v \in Elems(ServerGetISBNVariants(last.isbn)) :
                /\ ~Has(rows, v)
                /\ \A j \in PgMatches(rows, v) :
                      rows[j].k \notin Elems(ServerGetISBNVariants(last.isbn))

\* C6: a record stored under the ISBN-10 key of a book is found by a lookup
\* with the equivalent 978 ISBN-13, and a record stored under the ISBN-13 key
\* is found by a lookup with the ISBN-10, by the client findBook and by the
\* findBookByISBN of both servers.
C6_LookupFormatAgnostic ==
    /\ \A x \in ClientIsbns, y \in ClientIsbns :
          IsIsbn10Of(x, y) =>
              /\ Has(data, x) => findBook(data, y) # <<>>
              /\ Has(data, y) => findBook(data, x) # <<>>
    /\ last.op = "json.getBook" =>
          \A z \in ServerIsbns :
              ((IsIsbn10Of(last.isbn, z) \/ IsIsbn10Of(z, last.isbn)) /\ Has(books, z))
                  => (last.status = 200 /\ last.found # <<>>)
    /\ last.op = "pg.getBook" =>
          \A z \in ServerIsbns :
              ((IsIsbn10Of(last.isbn, z) \/ IsIsbn10Of(z, last.isbn)) /\ Has(rows, z))
                  => (last.status = 200 /\ last.found # <<>>)

\* k is the earliest element of the list vs that is a key of the store obj
EarliestKey(obj, vs, k) ==
    \E n \in 1..Len(vs) :
        /\ vs[n] = k
        /\ Has(obj, k)
        /\ \A m \in 1..(n - 1) : ~Has(obj, vs[m])

\* C16: when a lookup by any variant returns a hit, the matched key it
\* reports is the key the record is stored under: it is the earliest variant
\* of the argument that is a key of the store, and the store maps it to the
\* returned record; for the client findBook and for findBookByISBN of both
\* servers.
C16_MatchedKeyIsStoredKey ==
    /\ (last.op = "findBook" /\ last.ret # <<>>) =>
          LET k == last.ret[1].foundWithISBN
          IN  /\ EarliestKey(data, getISBNVariants(last.isbn), k)
              /\ Spread(Get(data, k), [foundWithISBN |-> k]) = last.ret[1]
    /\ (last.op = "json.getBook" /\ last.found # <<>>) =>
          LET k == last.found[1].foundISBN
          IN  /\ EarliestKey(books, ServerGetISBNVariants(last.isbn), k)
              /\ Get(books, k) = last.found[1].book
    /\ (last.op = "pg.getBook" /\ last.found # <<>>) =>
          LET k == last.found[1].foundISBN
          IN  /\ EarliestKey(rows, ServerGetISBNVariants(last.isbn), k)
              /\ Get(rows, k) = last.found[1].book

\* new has the createdAt that old has, when old has one
KeepsCreatedAt(old, new) ==
    "createdAt" \in DOMAIN old =>
        ("createdAt" \in DOMAIN new /\ new.createdAt = old.createdAt)

\* C17: a write that merges into an existing record leaves the record's
\* createdAt as it was, and a write that creates a record sets createdAt;
\* for the Postgres createBook onto an existing key and for the import of
\* both servers onto an existing key.
C17_CreatedAtPreserved ==
    /\ (last.op = "pg.createBook" /\ last.status = 201) =>
          LET key == ServerNormalizeISBN(last.isbn)
          IN  /\ Has(rows, key)
              /\ "createdAt" \in DOMAIN Get(rows, key)
              /\ Has(last.pre, key) => KeepsCreatedAt(Get(last.pre, key), Get(rows, key))
    /\ (last.op = "json.import" /\ last.status = 200) =>
          \A j \in ImportedOnto(last.pre, last.arg.books) :
              LET key == ServerNormalizeISBN(last.arg.books[j].k)
              IN  Has(books, key) /\ KeepsCreatedAt(Get(last.pre, key), Get(books, key))
    /\ (last.op = "pg.importEntry" /\ last.status # "invalid") =>
          LET key == ServerNormalizeISBN(last.isbn)
          IN  /\ Has(rows, key)
              /\ "createdAt" \in DOMAIN Get(rows, key)
              /\ Has(last.pre, key) => KeepsCreatedAt(Get(last.pre, key), Get(rows, key))

\* the store obj has a record under key whose isbn property is key
IsbnFieldIsKey(obj, key) ==
    /\ Has(obj, key)
    /\ "isbn" \in DOMAIN Get(obj, key)
    /\ Get(obj, key).isbn = key

\* C18: after a server write (createBook, updateBook, import) the isbn
\* property of the record written equals the key the record is stored under,
\* whatever isbn property the request body carries.
C18_IsbnFieldEqualsKey ==
    /\ (last.op = "json.createBook" /\ last.status = 201) =>
          IsbnFieldIsKey(books, ServerNormalizeISBN(last.isbn))
    /\ (last.op = "json.updateBook" /\ last.status = 200) =>
          IsbnFieldIsKey(books, ServerValidateISBN(last.isbn).isbn)
    /\ (last.op = "json.import" /\ last.status = 200) =>
          \A j \in 1..Len(last.arg.books) :
              ServerValidateISBN(last.arg.books[j].k).valid =>
                  IsbnFieldIsKey(books, ServerNormalizeISBN(last.arg.books[j].k))
    /\ (last.op = "pg.createBook" /\ last.status = 201) =>
          IsbnFieldIsKey(rows, ServerNormalizeISBN(last.isbn))
    /\ (last.op = "pg.updateBook" /\ last.status = 200) =>
          IsbnFieldIsKey(rows, ServerNormalizeISBN(last.isbn))
    /\ (last.op = "pg.importEntry" /\ last.status # "invalid") =>
          IsbnFieldIsKey(rows, ServerNormalizeISBN(last.isbn))

\* every key of the client store obj is its own normal form
AllKeysCanonical(obj) == \A j \in 1..Len(obj) : normalizeISBN(obj[j].k) = obj[j].k

\* C19: in every state reachable from the empty client store by addBook,
\* updateBookField, deleteBook, importDatabase and cleanDatabase, every key
\* k of the store satisfies normalize(k) = k.
C19_ClientKeysCanonical == AllKeysCanonical(data)

\* C20: the client deleteBook(x) returns true exactly when the store held a
\* record under at least one variant of x before the call; when it returns
\* false the store is unchanged and localStorage is not written; in either
\* case every key that is not a variant of x keeps its record.
C20_DeleteBookResult ==
    last.op = "deleteBook" =>
        LET vs == Elems(getISBNVariants(last.isbn))
        IN  /\ last.ret = (\E v \in vs : Has(last.pre, v))
            /\ ~last.ret => (data = last.pre /\ ~last.saved)
            /\ \A j \in 1..Len(last.pre) :
                  last.pre[j].k \notin vs =>
                      (Has(data, last.pre[j].k) /\ Get(data, last.pre[j].k) = last.pre[j].v)

\* C20 witness: deleteBook("0156013987") has returned true on a store that
\* held the book under 9780156013987 next to another book, which remains
C20_Witness ==
    /\ last.op = "deleteBook"
    /\ last.isbn = A10x
    /\ Has(last.pre, A13)
    /\ Has(last.pre, B13)
    /\ last.ret
    /\ KeySet(data) = {B13}
    /\ Get(data, B13) = Get(last.pre, B13)

\* the identifiers a record is looked up by
LookupIsbns == ClientIsbns \cup {A13w}

\* C21: in the client store a record is removed only by an explicit delete:
\* when findBook(x) returns a record, it still returns a record after every
\* addBook, updateBookField, importDatabase and cleanDatabase call, for every
\* identifier x the validator accepts.
C21_RemovedOnlyByDelete ==
    [][\A x \in LookupIsbns :
          (findBook(data, x) # <<>> /\ last'.op # "deleteBook") => findBook(data', x) # <<>>]_vars

\* C22: a server write is one atomic read-modify-write on its key: the record
\* that a completed Postgres updateBook leaves under its key is the merge of
\* the request body into the record that was stored when it wrote, so the
\* result of two concurrent updateBook calls is that of running them one
\* after the other and no completed write is overwritten by a stale one.
C22_AtomicReadModifyWrite ==
    (last.op = "pg.updateBook" /\ last.status = 200) =>
        LET key == ServerNormalizeISBN(last.isbn)
        IN  Get(rows, key) = PgUpdatedData(Get(last.pre, key), last.info, last.now)

\* the property names a record of the client store may carry: those of the
\* bookInfo objects, field edits and imported books written so far, and the
\* store's own lastUpdated and source
SuppliedFields ==
    UNION {DOMAIN b : b \in BookInfos \cup FieldEdits \cup {ImportedBook}}
        \cup {"lastUpdated", "source"}

\* C24: in every state reachable by client store operations a stored record
\* has only properties that some write supplied or that the store sets
\* itself (lastUpdated, source); the annotation foundWithISBN that findBook
\* adds to its return value is not a property of any stored record.
C24_NoLookupAnnotationStored ==
    \A j \in 1..Len(data) :
        /\ DOMAIN data[j].v \subseteq SuppliedFields
        /\ "foundWithISBN" \notin DOMAIN data[j].v

MaxKeys == 2

\* keys of a saved object: both forms of one book, the ten and thirteen
\* characters of that book with another last character, and another book
SavedKeys == {A10, A10x, A13, A13w, B13}

SavedBooks == {ImportedBook, [title |-> "T1", lastUpdated |-> 0, source |-> "google_api"]}

\* lists of at most n entries with keys among ks and values among bs
RECURSIVE StoresOver(_, _, _)
StoresOver(ks, bs, n) ==
    IF n = 0 THEN {<<>>}
    ELSE LET shorter == StoresOver(ks, bs, n - 1)
         IN  shorter \cup {Append(o, [k |-> key, v |-> b]) :
                              o \in {x \in shorter : Len(x) = n - 1},
                              key \in ks, b \in bs}

\* what JSON.parse(localStorage.getItem(dbName)) can be
SavedStores == {x \in StoresOver(SavedKeys, SavedBooks, MaxKeys) : DistinctKeys(x)}

\* the constructor: loadDatabase
InitLoaded ==
    /\ PureIdle
    /\ data \in SavedStores
    /\ books = <<>>
    /\ rows = <<>>
    /\ inflight = <<>>
    /\ last = [op |-> "init"]
    /\ clock = 0
    /\ nops = 0
    /\ file = <<>>
    /\ SearchIdle

NextLoaded == CleanDatabase

SpecLoaded == InitLoaded /\ [][NextLoaded]_vars

\* the elements that the variant lists of the keys k1 and k2 share
SharedVariants(k1, k2) == Elems(getISBNVariants(k1)) \cap Elems(getISBNVariants(k2))

\* C29: after cleanDatabase returns, no two keys of the store have variant
\* lists with a common element, and a cleanDatabase called again at once
\* returns 0 and leaves the store as it is, whatever object was loaded.
C29_CleanDatabaseIdempotent ==
    last.op = "cleanDatabase" =>
        /\ \A k1 \in KeySet(data), k2 \in KeySet(data) : k1 # k2 => SharedVariants(k1, k2) = {}
        /\ cleanDatabase(data) = data
        /\ Len(data) - Len(cleanDatabase(data)) = 0

(***************************************************************************)
(* Properties of the search from the page                                  *)
(***************************************************************************)
\* C25: whenever a searchGoogleBooks call is in flight, currentRequest is
\* the controller of the most recently started call in flight, so that
\* cancelCurrentSearch aborts that call; the finally block of a superseded
\* call does not clear the controller of the call that superseded it.
C25_CurrentRequestIsLatest ==
    inflight # <<>> => currentRequest = <<inflight[Len(inflight)].id>>

\* C26: a searchGoogleBooks call that abort() ends, whichever service it was
\* waiting on, sends no request to a later service and rejects with the
\* error 'Recherche annulée'.
C26_AbortRejectsCancelled ==
    (last.op \in {"searchBook", "cleanup"} /\ "ended" \in DOMAIN last) =>
        \A j \in 1..Len(last.ended) :
            /\ last.ended[j].requests = 0
            /\ last.ended[j].error.message = "Recherche annulée"

\* C27: a search that a newer searchBook superseded never changes what
\* #results shows and never hides #loading while the newer search is in
\* flight: whatever a step shows comes from the most recently started
\* search, #loading is shown while a search is in flight, and once no
\* search is in flight the page shows the outcome of the most recently
\* started search.
C27_SupersededSearchSilent ==
    [][/\ (ui'.results # ui.results /\ ui'.results.kind \in {"book", "prompt"})
            => ui'.results.by = searches'
       /\ inflight' # <<>> => ui'.loading
       /\ (inflight' = <<>> /\ searches' > 0 /\ last'.op \in {"searchBook", "fetchAnswer"}
             /\ (last'.op = "searchBook" => last'.valid))
            => (ui'.results.kind \in {"book", "prompt"} /\ ui'.results.by = searches')
      ]_vars

\* the identifiers the page can be given that name the book of x: x itself
\* and its other form (ISBN-10 of an ISBN-13, ISBN-13 of an ISBN-10)
SameBook(x) == {y \in SearchInputs : y = x \/ IsIsbn10Of(x, y) \/ IsIsbn10Of(y, x)}

\* the store obj holds a record under y or under the other form of y
CachedFor(obj, y) == \E k \in KeySet(obj) : k = y \/ IsIsbn10Of(y, k) \/ IsIsbn10Of(k, y)

\* C23: results are cached locally.  When searchByISBN(x) succeeds through
\* an external service the store holds the record for x and for its other
\* form; the record stays until a deleteBook removes it; and a searchByISBN
\* called with an identifier whose record is held returns success with
\* source 'cache' and starts no request to an external service.
C23_CachedAfterExternalSuccess ==
    [][/\ (last'.op = "fetchAnswer" /\ last' # last /\ last'.done /\ last'.result.success)
            => \A y \in SameBook(last'.isbn) : CachedFor(data', y)
       /\ \A y \in SearchInputs :
             (CachedFor(data, y) /\ ~(last'.op = "deleteBook" /\ data' # data))
                 => CachedFor(data', y)
       /\ (last'.op = "searchBook" /\ nops' = nops + 1 /\ last'.valid
             /\ CachedFor(data, cleanISBN(last'.isbn)))
            => /\ last'.source = "cache"
               /\ ~last'.requested
               /\ \A j \in 1..Len(inflight') : inflight'[j].id # last'.id
      ]_vars

\* C23 witness: searchBook with 0156013983 has been answered from the store
\* (source 'cache', no request), which holds under 9780156013987 the record
\* that an earlier search saved from an external service
C23_Witness ==
    /\ last.op = "searchBook"
    /\ last.valid
    /\ last.isbn = A10
    /\ last.source = "cache"
    /\ ~last.requested
    /\ Has(last.pre, A13)
    /\ Get(last.pre, A13).source = "google_api"
    /\ inflight = <<>>
    /\ ui.results.kind = "book"
    /\ ui.results.source = "cache"

(***************************************************************************)
(* books.json server: requests that overlap.  A handler runs until its     *)
(* first pending await; inflight holds what is awaited: the answer of      *)
(* Google Books, the copyFile of a backup, the writeFile of a snapshot     *)
(***************************************************************************)
\* saveDatabase up to its first pending await: in a minute divisible by 30
\* the copyFile of the backup, otherwise the writeFile of JSON.stringify(this.books)
SaveDatabase(q, obj, backup) ==
    Append(q, IF backup THEN [kind |-> "copyFile"]
              ELSE [kind |-> "writeFile", formattedData |-> obj])

\* the record that searchGoogleBooks stores for the first item of the answer
JsonGoogleBook(bookInfo, normalizedISBN, now) ==
    Spread(bookInfo, [isbn |-> normalizedISBN, source |-> "google_api",
                      createdAt |-> now, updatedAt |-> now])

\* what no books.json handler touches
JsonSaveFrame ==
    UNCHANGED <<isbn, val, calls, verdict, variants, data, rows, clock,
                currentRequest, ui, searches>>

\* createBook up to its await of saveDatabase
JsonCreateBookStart ==
    \E body \in CreateBodies, backup \in BOOLEAN :
        /\ nops < MaxOps
        /\ Len(inflight) < MaxInflight
        /\ books' = JsonCreateBook(books, body, clock)
        /\ inflight' = IF JsonCreateBookStatus(books, body) = 201
                       THEN SaveDatabase(inflight, books', backup) ELSE inflight
        /\ last' = [op |-> "json.createBook.start", isbn |-> body.isbn,
                    status |-> JsonCreateBookStatus(books, body)]
        /\ nops' = nops + 1
        /\ UNCHANGED file
        /\ JsonSaveFrame

\* updateBook up to its await of saveDatabase
JsonUpdateBookStart ==
    \E i \in ServerIsbns, updates \in UpdateBodies, backup \in BOOLEAN :
        /\ nops < MaxOps
        /\ Len(inflight) < MaxInflight
        /\ books' = JsonUpdateBook(books, i, updates, clock)
        /\ inflight' = IF JsonKeyStatus(books, i) = 200
                       THEN SaveDatabase(inflight, books', backup) ELSE inflight
        /\ last' = [op |-> "json.updateBook.start", isbn |-> i,
                    status |-> JsonKeyStatus(books, i)]
        /\ nops' = nops + 1
        /\ UNCHANGED file
        /\ JsonSaveFrame

\* deleteBook up to its await of saveDatabase
JsonDeleteBookStart ==
    \E i \in ServerIsbns, backup \in BOOLEAN :
        /\ nops < MaxOps
        /\ Len(inflight) < MaxInflight
        /\ books' = JsonDeleteBook(books, i)
        /\ inflight' = IF JsonKeyStatus(books, i) = 200
                       THEN SaveDatabase(inflight, books', backup) ELSE inflight
        /\ last' = [op |-> "json.deleteBook.start", isbn |-> i,
                    status |-> JsonKeyStatus(books, i)]
        /\ nops' = nops + 1
        /\ UNCHANGED file
        /\ JsonSaveFrame

\* importFromLocalStorage up to its await of saveDatabase
JsonImportStart ==
    \E body \in ImportBodies, backup \in BOOLEAN :
        /\ nops < MaxOps
        /\ Len(inflight) < MaxInflight
        /\ books' = JsonImportFromLocalStorage(books, body, clock)
        /\ inflight' = IF "books" \in DOMAIN body
                       THEN SaveDatabase(inflight, books', backup) ELSE inflight
        /\ last' = [op |-> "json.import.start", isbn |-> <<>>,
                    status |-> IF "books" \in DOMAIN body THEN 200 ELSE 400]
        /\ nops' = nops + 1
        /\ UNCHANGED file
        /\ JsonSaveFrame

\* searchGoogleBooks up to await fetch(url): 400 for an invalid identifier, the
\* stored book when findBookByISBN finds one, otherwise the request is sent
JsonGoogleStart ==
    \E i \in ServerIsbns :
        LET validation == ServerValidateISBN(i)
            existing == IF validation.valid THEN JsonFindBookByISBN(books, validation.isbn)
                        ELSE <<>>
        IN  /\ nops < MaxOps
            /\ Len(inflight) < MaxInflight
            /\ inflight' = IF validation.valid /\ existing = <<>>
                           THEN Append(inflight, [kind |-> "fetch", isbn |-> validation.isbn])
                           ELSE inflight
            /\ last' = [op |-> "json.google.start", isbn |-> i,
                        status |-> IF ~validation.valid THEN 400
                                   ELSE IF existing # <<>> THEN 200 ELSE 0]
            /\ nops' = nops + 1
            /\ UNCHANGED <<books, file>>
            /\ JsonSaveFrame

\* searchGoogleBooks from the answer of Google Books on: with items the first
\* one is stored under the normalised identifier, whatever the store holds by
\* now, and saveDatabase is awaited
JsonGoogleAnswer ==
    \E j \in 1..Len(inflight), answer \in Answers, bookInfo \in VolumeInfos, backup \in BOOLEAN :
        /\ inflight[j].kind = "fetch"
        /\ LET normalizedISBN == ServerNormalizeISBN(inflight[j].isbn)
               rest == RemoveAt(inflight, j)
           IN  IF answer = "items"
               THEN /\ books' = Put(books, normalizedISBN,
                                    JsonGoogleBook(bookInfo, normalizedISBN, clock))
                    /\ inflight' = SaveDatabase(rest, books', backup)
                    /\ last' = [op |-> "json.google.answer", isbn |-> inflight[j].isbn,
                                status |-> 200,
                                pre |-> IF Has(books, normalizedISBN)
                                        THEN <<Get(books, normalizedISBN)>> ELSE <<>>]
               ELSE /\ books' = books
                    /\ inflight' = rest
                    /\ last' = [op |-> "json.google.answer", isbn |-> inflight[j].isbn,
                                status |-> IF answer = "empty" THEN 404 ELSE 500,
                                pre |-> <<>>]
        /\ UNCHANGED <<nops, file>>
        /\ JsonSaveFrame

\* saveDatabase after its copyFile: this.books is serialised as it is now and
\* the writeFile is started
JsonCopyFileDone ==
    \E j \in 1..Len(inflight) :
        /\ inflight[j].kind = "copyFile"
        /\ inflight' = [inflight EXCEPT ![j] = [kind |-> "writeFile", formattedData |-> books]]
        /\ last' = [op |-> "json.copyFile", isbn |-> <<>>, status |-> 0]
        /\ UNCHANGED <<books, nops, file>>
        /\ JsonSaveFrame

\* a writeFile completes; writeFile calls on one file that overlap complete in
\* any order, and the file holds what the one completing last wrote
JsonWriteFileDone ==
    \E j \in 1..Len(inflight) :
        /\ inflight[j].kind = "writeFile"
        /\ file' = inflight[j].formattedData
        /\ inflight' = RemoveAt(inflight, j)
        /\ last' = [op |-> "json.writeFile", isbn |-> <<>>, status |-> 0]
        /\ UNCHANGED <<books, nops>>
        /\ JsonSaveFrame

NextJsonSave ==
    \/ JsonCreateBookStart
    \/ JsonUpdateBookStart
    \/ JsonDeleteBookStart
    \/ JsonImportStart
    \/ JsonGoogleStart
    \/ JsonGoogleAnswer
    \/ JsonCopyFileDone
    \/ JsonWriteFileDone

SpecJsonSave == InitJson /\ [][NextJsonSave]_vars

\* C30: in the books.json server, when no request is running any more (nothing
\* awaits Google Books, a copyFile or a writeFile), books.json holds this.books
C30_FileEqualsBooksWhenQuiet ==
    inflight = <<>> => file = books

====
